---- MODULE Spec2Model ----
(***************************************************************************)
(* twitch-soundbot: the EventSub websocket session (lookup, handshake,    *)
(* registration, dispatch loop) of src/eventsub.rs, the redemption        *)
(* handler of src/redemption.rs and the sound player of src/sound.rs.     *)
(***************************************************************************)
EXTENDS Integers, Sequences, FiniteSets, TLC

(***************************************************************************)
(* Bounds of the model.                                                    *)
(***************************************************************************)
\* frames the dispatch loop reads before the server closes or breaks the stream
MaxFrames == 2
\* seconds the clock may run past the handshake ceiling while a read is pending
MaxOverrun == 2

\* eventsub.rs:78  for _ in 0..10
HandshakePolls == 10

(***************************************************************************)
(* serde_json::Value.  A value is a tagged record; NoValue is Option::None *)
(* (an absent key), Malformed is a text that serde_json cannot parse.      *)
(***************************************************************************)
Str(s) == [t |-> "str", s |-> s]
Num == [t |-> "num"]
Null == [t |-> "null"]
Obj(f) == [t |-> "obj", f |-> f]
Arr(a) == [t |-> "arr", a |-> a]
NoValue == [t |-> "none"]
Malformed == [t |-> "malformed"]

\* an object holding the fields of rec that are present
MkObj(rec) == Obj([k \in {x \in DOMAIN rec : rec[x] # NoValue} |-> rec[k]])
EmptyObj == Obj([k \in {} |-> NoValue])

\* Value::get(key): Some(member) of an object that has the key, None otherwise
\* (None also when the value is not an object, and through and_then on None)
Get(v, k) == IF v.t = "obj" /\ k \in DOMAIN v.f THEN v.f[k] ELSE NoValue

\* Value::get(index) on an array
GetIdx(v, i) == IF v.t = "arr" /\ i + 1 \in DOMAIN v.a THEN v.a[i + 1] ELSE NoValue

\* Value::as_str(): Some(string) only for a JSON string
AsStr(v) == IF v.t = "str" THEN v ELSE NoValue

\* serde_json::from_str: Err for a text that is not JSON
ParseOk(text) == text.t # "malformed"

(***************************************************************************)
(* Program constants.                                                      *)
(***************************************************************************)
\* eventsub.rs:141 and eventsub.rs:209
EventType == "channel.channel_points_custom_reward_redemption.add"
WelcomeType == "session_welcome"
UnknownReward == "unknown reward"
UnknownUser == "unknown user"

(***************************************************************************)
(* Results.  Result<T, Box<dyn Error>> as a record: st is "ok" or "err"    *)
(* ("running" while the service has not returned), val the Ok value, msg   *)
(* the error's text, status and body what the message is formatted with.   *)
(***************************************************************************)
Ok(v) == [st |-> "ok", val |-> v, msg |-> "", status |-> 0, body |-> ""]
Err(m, status, body) ==
    [st |-> "err", val |-> "", msg |-> m, status |-> status, body |-> body]
Running == [st |-> "running", val |-> "", msg |-> "", status |-> 0, body |-> ""]

\* reqwest StatusCode::is_success: 200..=299
IsSuccess(status) == status >= 200 /\ status <= 299

(***************************************************************************)
(* eventsub.rs: the pure functions.                                        *)
(***************************************************************************)
\* extract_session_id without the test of metadata.message_type
ExtractSessionIdAnyType(text) ==
    AsStr(Get(Get(Get(text, "payload"), "session"), "id"))

\* extract_session_id(text) -> Option<String>: Str(id) or NoValue
ExtractSessionId(text) ==
    IF ParseOk(text)
       /\ AsStr(Get(Get(text, "metadata"), "message_type")) = Str(WelcomeType)
    THEN LET session == Get(Get(text, "payload"), "session")
         IN  IF session # NoValue THEN AsStr(Get(session, "id")) ELSE NoValue
    ELSE NoValue

\* IsRedemption without the comparison with the event type: a frame of any
\* string subscription type is dispatched
IsRedemptionAnyType(event) ==
    AsStr(Get(Get(Get(event, "payload"), "subscription"), "type")) # NoValue

\* the nested if-lets of the dispatch loop: does the parsed frame carry a
\* payload, in it a subscription, in it a string type equal to the event type
IsRedemption(event) ==
    LET payload == Get(event, "payload")
    IN  IF payload # NoValue
        THEN LET subscription == Get(payload, "subscription")
             IN  IF subscription # NoValue
                 THEN LET event_type == AsStr(Get(subscription, "type"))
                      IN  IF event_type # NoValue
                          THEN event_type.s = EventType
                          ELSE FALSE
                 ELSE FALSE
        ELSE FALSE

\* get_numeric_broadcaster_id, from the environment and the server's response
GetNumericBroadcasterId(env, resp) ==
    IF "CLIENT_ID" \notin env THEN Err("environment variable not found", 0, "")
    ELSE IF ~resp.sent THEN Err("error sending request", 0, "")
    ELSE IF ~IsSuccess(resp.status)
         THEN Err("Failed to fetch broadcaster id", resp.status, "")
    ELSE IF ~ParseOk(resp.body) THEN Err("error decoding response body", 0, "")
    ELSE LET id == AsStr(Get(GetIdx(Get(resp.body, "data"), 0), "id"))
         IN  IF id # NoValue THEN Ok(id.s)
             ELSE Err("No broadcaster id found", 0, "")

\* the WsSubscriptionPayload that register_ws_subscription builds
SubscriptionPayload(broadcaster_numeric_id, session_id) ==
    [type |-> EventType, version |-> "1",
     broadcaster_user_id |-> broadcaster_numeric_id,
     method |-> "websocket", session_id |-> session_id]

\* register_ws_subscription with an error that leaves out the body's text
RegisterWsSubscriptionNoText(env, resp) ==
    IF "CLIENT_ID" \notin env THEN Err("environment variable not found", 0, "")
    ELSE IF ~resp.sent THEN Err("error sending request", 0, "")
    ELSE IF IsSuccess(resp.status) THEN Ok("")
    ELSE Err("Failed to register subscription", 0, "")

\* register_ws_subscription, from the environment and the server's response
RegisterWsSubscription(env, resp) ==
    IF "CLIENT_ID" \notin env THEN Err("environment variable not found", 0, "")
    ELSE IF ~resp.sent THEN Err("error sending request", 0, "")
    ELSE IF IsSuccess(resp.status) THEN Ok("")
    ELSE IF resp.body.t # "str" THEN Err("error decoding response body", 0, "")
    ELSE Err("Failed to register subscription", 0, resp.body.s)

(***************************************************************************)
(* redemption.rs: what handle_redemption passes to the sound player.       *)
(***************************************************************************)
\* event.reward.title as a string, or "unknown reward"
RewardTitle(event) ==
    LET t == AsStr(Get(Get(event, "reward"), "title"))
    IN  IF t # NoValue THEN t.s ELSE UnknownReward

\* UserName with a default that depends on the reward: without a string
\* reward title the user is "unknown user" too
UserNameNeedsReward(event) ==
    LET u == AsStr(Get(event, "user_name"))
        t == AsStr(Get(Get(event, "reward"), "title"))
    IN  IF u # NoValue /\ t # NoValue THEN u.s ELSE UnknownUser

\* event.user_name as a string, or "unknown user"
UserName(event) ==
    LET u == AsStr(Get(event, "user_name"))
    IN  IF u # NoValue THEN u.s ELSE UnknownUser

\* does handle_redemption reach play_sound_for_redemption for this payload
HasEvent(payload) == Get(payload, "event") # NoValue

(***************************************************************************)
(* sound.rs: the cached sound list and the case-insensitive match.         *)
(***************************************************************************)
\* the file stems of the sounds directory, read once by read_sound_list
SoundList == {"coolsound"}

\* str::to_lowercase on the titles of the model
ToLower(s) == IF s = "CoolSound" THEN "coolsound" ELSE s

\* sound_list.iter().find(|name| name.to_lowercase() == lower_reward)
HasSound(reward_title) ==
    \E name \in SoundList : ToLower(name) = ToLower(reward_title)

(***************************************************************************)
(* What the servers can send: websocket frames and HTTP responses.         *)
(***************************************************************************)
TextFrame(text) == [kind |-> "text", text |-> text]
OtherFrame(kind) == [kind |-> kind, text |-> NoValue]

\* {"metadata": {"message_type": mt}, "payload": payload}
Message(mt, payload) ==
    MkObj([metadata |-> MkObj([message_type |-> mt]), payload |-> payload])

\* a welcome-shaped text with the given message type and payload.session.id
WelcomeText(mt, id) == Message(mt, MkObj([session |-> MkObj([id |-> id])]))

\* a notification-shaped text with the given subscription type and event
NotificationText(ty, event) ==
    Message(Str("notification"),
            MkObj([subscription |-> MkObj([type |-> ty]), event |-> event]))

\* {"user_name": user, "reward": {"title": title}}
EventOf(user, title) ==
    MkObj([user_name |-> user,
           reward |-> IF title = NoValue THEN NoValue ELSE MkObj([title |-> title])])

Events ==
    {NoValue, EmptyObj, EventOf(Str("TestUser"), Str("CoolSound"))}

Texts ==
    {Malformed, Num, EmptyObj}
    \cup {WelcomeText(Str(WelcomeType), id) : id \in {Str("S1"), Str(""), Num, NoValue}}
    \cup {WelcomeText(mt, Str("S1")) : mt \in {NoValue, Num, Str("session_keepalive")}}
    \cup {Message(Str(WelcomeType), NoValue), Message(Str(WelcomeType), EmptyObj)}
    \cup {NotificationText(Str(EventType), e) : e \in Events}
    \cup {NotificationText(ty, EventOf(Str("TestUser"), Str("CoolSound"))) :
             ty \in {NoValue, Num, Str("channel.follow")}}
    \cup {Message(Str("notification"),
                  MkObj([event |-> EventOf(Str("TestUser"), Str("CoolSound"))]))}

Frames ==
    {TextFrame(t) : t \in Texts}
    \cup {OtherFrame(k) : k \in {"binary", "ping", "pong", "close"}}

HttpResponse(status, body) == [sent |-> TRUE, status |-> status, body |-> body]
NoResponse == [sent |-> FALSE, status |-> 0, body |-> NoValue]

\* {"data": [user]}
UsersBody(user) == MkObj([data |-> Arr(<<user>>)])

LookupResponses ==
    {NoResponse, HttpResponse(401, EmptyObj), HttpResponse(200, Malformed),
     HttpResponse(200, EmptyObj), HttpResponse(200, MkObj([data |-> Arr(<<>>)])),
     HttpResponse(200, MkObj([data |-> EmptyObj])),
     HttpResponse(200, UsersBody(EmptyObj)),
     HttpResponse(200, UsersBody(MkObj([id |-> Num]))),
     HttpResponse(200, UsersBody(MkObj([id |-> Str("12826")])))}

RegisterResponses ==
    {NoResponse, HttpResponse(202, Str("")),
     HttpResponse(400, Str("invalid condition")),
     HttpResponse(401, NoValue)}

\* what a frame is to the dispatch loop, in the terms of the frame itself:
\* not text, text that is not JSON, JSON whose payload.subscription.type is
\* the string EventType ("eligible"), JSON of another kind that is a
\* session_welcome with a string id ("welcome"), any other JSON
FrameKind(f) ==
    IF f.kind # "text" THEN "nontext"
    ELSE IF f.text = Malformed THEN "malformed"
    ELSE IF Get(Get(Get(f.text, "payload"), "subscription"), "type") = Str(EventType)
         THEN "eligible"
    ELSE IF /\ Get(Get(f.text, "metadata"), "message_type") = Str(WelcomeType)
            /\ Get(Get(Get(f.text, "payload"), "session"), "id").t = "str"
         THEN "welcome"
    ELSE "ineligible"

\* what a frame is to the handshake, in the terms of the frame itself: not
\* text, text that is not JSON, JSON of another message type, a
\* session_welcome without a string id, with the id "", with a longer id
HsKind(f) ==
    IF f.kind # "text" THEN "nontext"
    ELSE IF f.text = Malformed THEN "malformed"
    ELSE IF Get(Get(f.text, "metadata"), "message_type") # Str(WelcomeType)
         THEN "othertype"
    ELSE LET id == Get(Get(Get(f.text, "payload"), "session"), "id")
         IN  IF id.t # "str" THEN "noid"
             ELSE IF id.s = "" THEN "empty"
             ELSE "welcome"

EnvKeys == {"CLIENT_ID", "CLIENT_SECRET", "REDIRECT_URI", "BROADCASTER_ID"}

(***************************************************************************)
(* State.                                                                  *)
(***************************************************************************)
VARIABLES
    env,          \* the names set in the process environment
    pc,           \* where run_eventsub_ws_service is
    result,       \* what run_eventsub_ws_service returned (Running before)
    numericId,    \* numeric_broadcaster_id ("" before the lookup)
    sessionId,    \* session_id: NoValue (None) or Str(id)
    polls,        \* handshake: completed iterations of for _ in 0..10
    hsElapsed,    \* handshake: seconds since the connection opened
    streamEnded,  \* the frame stream has returned None
    setup,        \* outcome of each setup step: "none", "ok" or "err"
    sent,         \* requests issued: lookups, connects, registrations
    regRequest,   \* the registration payload sent (NoValue before)
    framesRead,   \* frames the dispatch loop has read
    lastKind,     \* what the frame the dispatch loop read last was
    eligibleRead, \* eligible frames the dispatch loop has read
    handlers,     \* the spawned handler threads, in spawn order
    calls,        \* entries into play_sound_for_redemption, in order
    mutex,        \* SOUND_LIST's mutex: holder (0: free) and poisoned
    hsKind,       \* what the handshake's last stream.next() yielded
    call,         \* a function called on its own: its name and argument
    ret,          \* what that call returned (Pending before)
    configFile,   \* the .env file of the configuration directory
    mainPc        \* where main is before it runs the service

vars == <<env, pc, result, numericId, sessionId, polls, hsElapsed, streamEnded,
          setup, sent, regRequest, framesRead, lastKind, eligibleRead, handlers,
          calls, mutex, hsKind, call, ret, configFile, mainPc>>

\* the variables of main's steps before the service
cfgVars == <<configFile, mainPc>>

\* the variables of a function called on its own
pureVars == <<call, ret>>

svcVars == <<pc, result, numericId, sessionId, polls, hsElapsed, streamEnded,
             setup, sent, regRequest, framesRead, lastKind, eligibleRead, hsKind>>

\* no function is called on its own
NoCall == [fn |-> "none", arg |-> NoValue]
Pending == [t |-> "pending"]

\* the service before run_eventsub_ws_service runs
SvcInit ==
    /\ pc = "start"
    /\ result = Running
    /\ numericId = ""
    /\ sessionId = NoValue
    /\ polls = 0
    /\ hsElapsed = 0
    /\ streamEnded = FALSE
    /\ setup = [lookup |-> "none", handshake |-> "none", register |-> "none"]
    /\ sent = [lookups |-> 0, connects |-> 0, registrations |-> 0]
    /\ regRequest = NoValue
    /\ framesRead = 0
    /\ lastKind = "none"
    /\ eligibleRead = 0
    /\ handlers = <<>>
    /\ calls = <<>>
    /\ mutex = [holder |-> 0, poisoned |-> FALSE]
    /\ hsKind = "none"

\* main has loaded the configuration and obtained the token
CfgDone ==
    /\ configFile = "complete"
    /\ mainPc = "service"

Init ==
    /\ env \in {EnvKeys, EnvKeys \ {"BROADCASTER_ID"}}
    /\ SvcInit
    /\ call = NoCall
    /\ ret = Pending
    /\ CfgDone

\* run_eventsub_ws_service returns r (the ? operator or the final Ok(()))
Return(r) == pc' = "returned" /\ result' = r

(***************************************************************************)
(* run_eventsub_ws_service: the setup steps.                               *)
(***************************************************************************)
\* Lookup with the lookup's error dropped instead of returned by ?
LookupUnchecked(resp) ==
    /\ pc = "start"
    /\ IF "BROADCASTER_ID" \notin env
       THEN /\ Return(Err("environment variable not found", 0, ""))
            /\ UNCHANGED <<numericId, setup, sent>>
       ELSE LET r == GetNumericBroadcasterId(env, resp)
            IN  /\ sent' = [sent EXCEPT !.lookups = @ + 1]
                /\ numericId' = r.val
                /\ setup' = [setup EXCEPT !.lookup = r.st]
                /\ pc' = "connect"
                /\ UNCHANGED result
    /\ UNCHANGED <<cfgVars, pureVars, hsKind, env, sessionId, polls, hsElapsed,
                   streamEnded, regRequest, framesRead, lastKind, eligibleRead,
                   handlers, calls, mutex>>

\* eventsub.rs:177-183: read BROADCASTER_ID, look the numeric id up
Lookup(resp) ==
    /\ pc = "start"
    /\ IF "BROADCASTER_ID" \notin env
       THEN /\ Return(Err("environment variable not found", 0, ""))
            /\ UNCHANGED <<numericId, setup, sent>>
       ELSE LET r == GetNumericBroadcasterId(env, resp)
            IN  /\ sent' = [sent EXCEPT !.lookups = @ + 1]
                /\ IF r.st = "ok"
                   THEN /\ numericId' = r.val
                        /\ setup' = [setup EXCEPT !.lookup = "ok"]
                        /\ pc' = "connect"
                        /\ UNCHANGED result
                   ELSE /\ setup' = [setup EXCEPT !.lookup = "err"]
                        /\ Return(r)
                        /\ UNCHANGED numericId
    /\ UNCHANGED <<cfgVars, pureVars, hsKind, env, sessionId, polls, hsElapsed,
                   streamEnded, regRequest, framesRead, lastKind, eligibleRead,
                   handlers, calls, mutex>>

\* eventsub.rs:71-76: connect_async, then the handshake's locals
Connect(opened) ==
    /\ pc = "connect"
    /\ sent' = [sent EXCEPT !.connects = @ + 1]
    /\ IF opened
       THEN /\ pc' = "hs_await"
            /\ UNCHANGED <<result, setup>>
       ELSE /\ setup' = [setup EXCEPT !.handshake = "err"]
            /\ Return(Err("connection error", 0, ""))
    /\ polls' = 0
    /\ hsElapsed' = 0
    /\ sessionId' = NoValue
    /\ UNCHANGED <<cfgVars, pureVars, hsKind, env, numericId, streamEnded,
                   regRequest, framesRead, lastKind, eligibleRead, handlers,
                   calls, mutex>>

\* HandshakeRecv failing the handshake at a frame that is not a welcome
HandshakeRecvStrict(f) ==
    /\ pc = "hs_await"
    /\ ~streamEnded
    /\ hsKind' = HsKind(f)
    /\ LET sid == IF f.kind = "text" THEN ExtractSessionId(f.text) ELSE NoValue
       IN  IF sid # NoValue
           THEN /\ sessionId' = sid
                /\ setup' = [setup EXCEPT !.handshake = "ok"]
                /\ pc' = "register"
                /\ UNCHANGED result
           ELSE /\ setup' = [setup EXCEPT !.handshake = "err"]
                /\ Return(Err("unexpected frame", 0, ""))
                /\ UNCHANGED sessionId
    /\ hsElapsed' = 0
    /\ UNCHANGED <<cfgVars, pureVars, env, numericId, polls, streamEnded, sent,
                   regRequest, framesRead, lastKind, eligibleRead, handlers,
                   calls, mutex>>

\* eventsub.rs:79-90, 93-94: stream.next() yields a frame
HandshakeRecv(f) ==
    /\ pc = "hs_await"
    /\ ~streamEnded
    /\ hsKind' = HsKind(f)
    /\ LET sid == IF f.kind = "text" THEN ExtractSessionId(f.text) ELSE NoValue
       IN  IF sid # NoValue
           THEN /\ sessionId' = sid
                /\ setup' = [setup EXCEPT !.handshake = "ok"]
                /\ pc' = "register"
                /\ hsElapsed' = 0
           ELSE /\ pc' = "hs_sleep"
                /\ UNCHANGED <<sessionId, setup, hsElapsed>>
    /\ UNCHANGED <<cfgVars, pureVars, env, result, numericId, polls,
                   streamEnded, sent, regRequest, framesRead, lastKind,
                   eligibleRead, handlers, calls, mutex>>

\* eventsub.rs:80: stream.next() yields Some(Err(_)), returned by ?
HandshakeReadError ==
    /\ pc = "hs_await"
    /\ ~streamEnded
    /\ hsKind' = "error"
    /\ setup' = [setup EXCEPT !.handshake = "err"]
    /\ Return(Err("read error", 0, ""))
    /\ hsElapsed' = 0
    /\ UNCHANGED <<cfgVars, pureVars, env, numericId, sessionId, polls,
                   streamEnded, sent, regRequest, framesRead, lastKind,
                   eligibleRead, handlers, calls, mutex>>

\* eventsub.rs:79: stream.next() yields None, the iteration goes on to sleep
HandshakeStreamEnd ==
    /\ pc = "hs_await"
    /\ hsKind' = "end"
    /\ streamEnded' = TRUE
    /\ pc' = "hs_sleep"
    /\ UNCHANGED <<cfgVars, pureVars, env, result, numericId, sessionId, polls,
                   hsElapsed, setup, sent, regRequest, framesRead, lastKind,
                   eligibleRead, handlers, calls, mutex>>

\* eventsub.rs:91-97: the one-second sleep that ends an iteration; after the
\* tenth, session_id is still None and the handshake fails
HandshakeSleep ==
    /\ pc = "hs_sleep"
    /\ polls' = polls + 1
    /\ IF polls + 1 = HandshakePolls
       THEN /\ setup' = [setup EXCEPT !.handshake = "err"]
            /\ Return(Err("Failed to receive session welcome message", 0, ""))
            /\ hsElapsed' = 0
       ELSE /\ pc' = "hs_await"
            /\ hsElapsed' = hsElapsed + 1
            /\ UNCHANGED <<result, setup>>
    /\ UNCHANGED <<cfgVars, pureVars, hsKind, env, numericId, sessionId,
                   streamEnded, sent, regRequest, framesRead, lastKind,
                   eligibleRead, handlers, calls, mutex>>

\* eventsub.rs:79: a second passes while stream.next().await is pending on an
\* open connection (the await has no timeout)
Tick ==
    /\ pc = "hs_await"
    /\ ~streamEnded
    /\ hsElapsed < HandshakePolls + MaxOverrun
    /\ hsElapsed' = hsElapsed + 1
    /\ UNCHANGED <<cfgVars, pureVars, hsKind, env, pc, result, numericId,
                   sessionId, polls, streamEnded, setup, sent, regRequest,
                   framesRead, lastKind, eligibleRead, handlers, calls, mutex>>

\* eventsub.rs:190-194: register the subscription
Register(resp) ==
    /\ pc = "register"
    /\ LET r == RegisterWsSubscription(env, resp)
       IN  /\ IF "CLIENT_ID" \in env
              THEN /\ regRequest' = SubscriptionPayload(numericId, sessionId.s)
                   /\ sent' = [sent EXCEPT !.registrations = @ + 1]
              ELSE UNCHANGED <<regRequest, sent>>
           /\ IF r.st = "ok"
              THEN /\ setup' = [setup EXCEPT !.register = "ok"]
                   /\ pc' = "loop"
                   /\ UNCHANGED result
              ELSE /\ setup' = [setup EXCEPT !.register = "err"]
                   /\ Return(r)
    /\ UNCHANGED <<cfgVars, pureVars, hsKind, env, numericId, sessionId, polls,
                   hsElapsed, streamEnded, framesRead, lastKind, eligibleRead,
                   handlers, calls, mutex>>

(***************************************************************************)
(* run_eventsub_ws_service: the dispatch loop.                             *)
(***************************************************************************)
\* Spawn putting the new thread ahead of the earlier ones
SpawnFront(payload) ==
    handlers' = <<[seq |-> framesRead + 1, payload |-> payload, st |-> "spawned"]>>
                \o handlers

\* eventsub.rs:210-213: clone the payload, std::thread::spawn the handler;
\* spawn returns at once, the JoinHandle is dropped
Spawn(payload) ==
    handlers' = Append(handlers,
                       [seq |-> framesRead + 1, payload |-> payload, st |-> "spawned"])

\* OnText with a text that is not JSON skipped instead of returned as an error
OnTextSkipMalformed(text) ==
    IF ParseOk(text) /\ IsRedemption(text)
    THEN /\ Spawn(Get(text, "payload"))
         /\ UNCHANGED <<pc, result>>
    ELSE UNCHANGED <<pc, result, handlers>>

\* eventsub.rs:199-217: a text frame: parse it (? returns the parse error),
\* spawn a handler on the payload of a redemption
OnText(text) ==
    IF ~ParseOk(text)
    THEN /\ Return(Err("parse error", 0, ""))
         /\ UNCHANGED handlers
    ELSE IF IsRedemption(text)
         THEN /\ Spawn(Get(text, "payload"))
              /\ UNCHANGED <<pc, result>>
         ELSE UNCHANGED <<pc, result, handlers>>

\* OnMessage with a frame that is not text taken as the end of the stream
OnMessageCloseEnds(f) ==
    IF f.kind # "text"
    THEN /\ Return(Ok(""))
         /\ UNCHANGED handlers
    ELSE OnText(f.text)

\* OnMessage with a frame that is not text handed to a handler thread
OnMessageSpawnsOnAny(f) ==
    IF f.kind # "text"
    THEN /\ Spawn(EmptyObj)
         /\ UNCHANGED <<pc, result>>
    ELSE OnText(f.text)

\* eventsub.rs:198-218: the loop body on a frame: only text frames are looked at
OnMessage(f) ==
    IF f.kind # "text"
    THEN UNCHANGED <<pc, result, handlers>>
    ELSE OnText(f.text)

\* LoopRecv joining the spawned threads before it reads the next frame
LoopRecvJoining(f) ==
    /\ pc = "loop"
    /\ framesRead < MaxFrames
    /\ \A i \in DOMAIN handlers : handlers[i].st \in {"done", "panicked"}
    /\ framesRead' = framesRead + 1
    /\ lastKind' = FrameKind(f)
    /\ eligibleRead' = eligibleRead + (IF FrameKind(f) = "eligible" THEN 1 ELSE 0)
    /\ OnMessage(f)
    /\ UNCHANGED <<cfgVars, pureVars, hsKind, env, numericId, sessionId, polls,
                   hsElapsed, streamEnded, setup, sent, regRequest, calls,
                   mutex>>

\* LoopRecv taking the session id of a session_welcome frame it reads
LoopRecvAdoptsWelcome(f) ==
    /\ pc = "loop"
    /\ framesRead < MaxFrames
    /\ framesRead' = framesRead + 1
    /\ lastKind' = FrameKind(f)
    /\ eligibleRead' = eligibleRead + (IF FrameKind(f) = "eligible" THEN 1 ELSE 0)
    /\ sessionId' = IF FrameKind(f) = "welcome"
                    THEN ExtractSessionId(f.text)
                    ELSE sessionId
    /\ OnMessage(f)
    /\ UNCHANGED <<cfgVars, pureVars, hsKind, env, numericId, polls, hsElapsed,
                   streamEnded, setup, sent, regRequest, calls, mutex>>

\* eventsub.rs:196-219: read.next() yields a frame; one pass of the loop body
LoopRecv(f) ==
    /\ pc = "loop"
    /\ framesRead < MaxFrames
    /\ framesRead' = framesRead + 1
    /\ lastKind' = FrameKind(f)
    /\ eligibleRead' = eligibleRead + (IF FrameKind(f) = "eligible" THEN 1 ELSE 0)
    /\ OnMessage(f)
    /\ UNCHANGED <<cfgVars, pureVars, hsKind, env, numericId, sessionId, polls,
                   hsElapsed, streamEnded, setup, sent, regRequest, calls,
                   mutex>>

\* a loop that opens the connection again after a read error
LoopReadErrorReconnects ==
    /\ pc = "loop"
    /\ pc' = "connect"
    /\ UNCHANGED <<cfgVars, pureVars, hsKind, env, result, numericId,
                   sessionId, polls, hsElapsed, streamEnded, setup, sent,
                   regRequest, framesRead, lastKind, eligibleRead, handlers,
                   calls, mutex>>

\* eventsub.rs:197: read.next() yields Some(Err(_)), returned by ?
LoopReadError ==
    /\ pc = "loop"
    /\ Return(Err("read error", 0, ""))
    /\ UNCHANGED <<cfgVars, pureVars, hsKind, env, numericId, sessionId, polls,
                   hsElapsed, streamEnded, setup, sent, regRequest, framesRead,
                   lastKind, eligibleRead, handlers, calls, mutex>>

\* eventsub.rs:196, 221: read.next() yields None, the loop ends, Ok(())
LoopStreamEnd ==
    /\ pc = "loop"
    /\ streamEnded' = TRUE
    /\ Return(Ok(""))
    /\ UNCHANGED <<cfgVars, pureVars, hsKind, env, numericId, sessionId, polls,
                   hsElapsed, setup, sent, regRequest, framesRead, lastKind,
                   eligibleRead, handlers, calls, mutex>>

\* main.rs:21-24: main returns what the service returned and the process
\* exits; threads still running end with it
MainReturn ==
    /\ pc = "returned"
    /\ pc' = "exited"
    /\ handlers' = [i \in DOMAIN handlers |->
                      IF handlers[i].st \in {"done", "panicked"}
                      THEN handlers[i]
                      ELSE [handlers[i] EXCEPT !.st = "killed"]]
    /\ UNCHANGED <<cfgVars, pureVars, hsKind, env, result, numericId,
                   sessionId, polls, hsElapsed, streamEnded, setup, sent,
                   regRequest, framesRead, lastKind, eligibleRead, calls,
                   mutex>>

(***************************************************************************)
(* A handler thread: handle_redemption, then play_sound_for_redemption.    *)
(***************************************************************************)
\* what can go wrong in sound.rs:46-61 once a sound matched
PlayOutcomes == {"play", "nodevice", "nofile", "nodecode", "nosink"}

\* HandlerRun giving up on an event without a user_name
HandlerRunNeedsUser(i) ==
    /\ handlers[i].st = "spawned"
    /\ LET event == Get(handlers[i].payload, "event")
       IN  IF event # NoValue /\ Get(event, "user_name") # NoValue
           THEN /\ calls' = Append(calls, [h |-> i, user |-> UserName(event),
                                           title |-> RewardTitle(event)])
                /\ handlers' = [handlers EXCEPT ![i].st = "entered"]
           ELSE /\ handlers' = [handlers EXCEPT ![i].st = "done"]
                /\ UNCHANGED calls
    /\ UNCHANGED <<cfgVars, pureVars, env, mutex>>
    /\ UNCHANGED svcVars

\* redemption.rs:5-26 up to sound.rs:36: the thread starts; with an event in
\* the payload it enters play_sound_for_redemption, without one it only prints
HandlerRun(i) ==
    /\ handlers[i].st = "spawned"
    /\ LET event == Get(handlers[i].payload, "event")
       IN  IF event # NoValue
           THEN /\ calls' = Append(calls, [h |-> i, user |-> UserName(event),
                                           title |-> RewardTitle(event)])
                /\ handlers' = [handlers EXCEPT ![i].st = "entered"]
           ELSE /\ handlers' = [handlers EXCEPT ![i].st = "done"]
                /\ UNCHANGED calls
    /\ UNCHANGED <<cfgVars, pureVars, env, mutex>>
    /\ UNCHANGED svcVars

\* HandlerLock with the thread's panic carried into the service's result
HandlerLockPropagating(i, outcome) ==
    /\ handlers[i].st = "entered"
    /\ mutex.holder = 0
    /\ LET title == RewardTitle(Get(handlers[i].payload, "event"))
       IN  IF mutex.poisoned
           THEN /\ handlers' = [handlers EXCEPT ![i].st = "panicked"]
                /\ Return(Err("handler panicked", 0, ""))
                /\ UNCHANGED mutex
           ELSE IF ~HasSound(title) \/ outcome \in {"nodevice", "nofile", "nodecode"}
                THEN /\ handlers' = [handlers EXCEPT ![i].st = "done"]
                     /\ UNCHANGED <<mutex, pc, result>>
                ELSE IF outcome = "nosink"
                     THEN /\ handlers' = [handlers EXCEPT ![i].st = "panicked"]
                          /\ Return(Err("handler panicked", 0, ""))
                          /\ mutex' = [mutex EXCEPT !.poisoned = TRUE]
                     ELSE /\ handlers' = [handlers EXCEPT ![i].st = "playing"]
                          /\ mutex' = [mutex EXCEPT !.holder = i]
                          /\ UNCHANGED <<pc, result>>
    /\ UNCHANGED <<cfgVars, pureVars, hsKind, env, calls, numericId, sessionId,
                   polls, hsElapsed, streamEnded, setup, sent, regRequest,
                   framesRead, lastKind, eligibleRead>>

\* sound.rs:38-65: lock SOUND_LIST, look the title up, start the playback.
\* lock().unwrap() panics on a poisoned mutex; Sink::try_new(..).expect panics
\* with the guard held and poisons it; a playing thread keeps the guard
HandlerLock(i, outcome) ==
    /\ handlers[i].st = "entered"
    /\ mutex.holder = 0
    /\ LET title == RewardTitle(Get(handlers[i].payload, "event"))
       IN  IF mutex.poisoned
           THEN /\ handlers' = [handlers EXCEPT ![i].st = "panicked"]
                /\ UNCHANGED mutex
           ELSE IF ~HasSound(title) \/ outcome \in {"nodevice", "nofile", "nodecode"}
                THEN /\ handlers' = [handlers EXCEPT ![i].st = "done"]
                     /\ UNCHANGED mutex
                ELSE IF outcome = "nosink"
                     THEN /\ handlers' = [handlers EXCEPT ![i].st = "panicked"]
                          /\ mutex' = [mutex EXCEPT !.poisoned = TRUE]
                     ELSE /\ handlers' = [handlers EXCEPT ![i].st = "playing"]
                          /\ mutex' = [mutex EXCEPT !.holder = i]
    /\ UNCHANGED <<cfgVars, pureVars, env, calls>>
    /\ UNCHANGED svcVars

\* sound.rs:53, 66: sink.sleep_until_end() returns, the guard is dropped
HandlerFinish(i) ==
    /\ handlers[i].st = "playing"
    /\ handlers' = [handlers EXCEPT ![i].st = "done"]
    /\ mutex' = [mutex EXCEPT !.holder = 0]
    /\ UNCHANGED <<cfgVars, pureVars, env, calls>>
    /\ UNCHANGED svcVars

Next ==
    \/ \E resp \in LookupResponses : Lookup(resp)
    \/ \E opened \in BOOLEAN : Connect(opened)
    \/ \E f \in Frames : HandshakeRecv(f)
    \/ HandshakeReadError
    \/ HandshakeStreamEnd
    \/ HandshakeSleep
    \/ Tick
    \/ \E resp \in RegisterResponses : Register(resp)
    \/ \E f \in Frames : LoopRecv(f)
    \/ LoopReadError
    \/ LoopStreamEnd
    \/ MainReturn
    \/ \E i \in DOMAIN handlers : HandlerRun(i)
    \/ \E i \in DOMAIN handlers, outcome \in PlayOutcomes : HandlerLock(i, outcome)
    \/ \E i \in DOMAIN handlers : HandlerFinish(i)

Spec == Init /\ [][Next]_vars

(***************************************************************************)
(* The functions called on their own, as the repository's unit tests call  *)
(* them: one call with one argument, which returns once.                   *)
(***************************************************************************)
\* redemption.rs:5-26: is play_sound_for_redemption called, and with what;
\* the function returns Ok(()) either way
HandleRedemption(payload) ==
    IF HasEvent(payload)
    THEN [st |-> "ok", called |-> TRUE,
          user |-> UserName(Get(payload, "event")),
          title |-> RewardTitle(Get(payload, "event"))]
    ELSE [st |-> "ok", called |-> FALSE, user |-> "", title |-> ""]

\* the texts extract_session_id is called with
PureTexts ==
    Texts
    \cup {WelcomeText(Str(WelcomeType), id) : id \in {Str("TestSessionID123"), Null}}
    \cup {WelcomeText(Str("notification"), Str("TestSessionID123"))}
    \cup {Message(Str(WelcomeType), MkObj([session |-> Null])),
          MkObj([payload |-> MkObj([session |-> MkObj([id |-> Str("S1")])])])}

\* the values of payload.event
PureEvents ==
    {NoValue, Null, EmptyObj}
    \cup {EventOf(u, t) : u \in {NoValue, Num, Str("TestUser"), Str("")},
                          t \in {NoValue, Num, Str("CoolSound"), Str("Airhorn")}}

\* the payloads of eligible frames
PurePayloads ==
    {MkObj([subscription |-> MkObj([type |-> Str(EventType)]), event |-> e]) :
        e \in PureEvents}

\* the responses to the identity lookup
PureLookupResponses ==
    LookupResponses
    \cup {HttpResponse(200, UsersBody(MkObj([id |-> Str("")]))),
          HttpResponse(200, MkObj([data |-> Arr(<<MkObj([id |-> Str("12826")]),
                                                  MkObj([id |-> Str("777")])>>)])),
          HttpResponse(404, UsersBody(MkObj([id |-> Str("12826")]))),
          HttpResponse(500, Malformed)}

\* the responses to the registration request
PureRegisterResponses ==
    RegisterResponses
    \cup {HttpResponse(200, Str("")), HttpResponse(202, NoValue),
          HttpResponse(400, Str("")), HttpResponse(409, Str("subscription already exists")),
          HttpResponse(500, NoValue)}

PureCalls ==
    {[fn |-> "extract_session_id", arg |-> t] : t \in PureTexts}
    \cup {[fn |-> "handle_redemption", arg |-> p] : p \in PurePayloads}
    \cup {[fn |-> "get_numeric_broadcaster_id", arg |-> r] : r \in PureLookupResponses}
    \cup {[fn |-> "register_ws_subscription", arg |-> r] : r \in PureRegisterResponses}

PureInit ==
    /\ env \in {EnvKeys, EnvKeys \ {"CLIENT_ID"}}
    /\ SvcInit
    /\ call \in PureCalls
    /\ ret = Pending
    /\ CfgDone

\* the call returns the value and changes nothing else
Returns(value) ==
    /\ ret = Pending
    /\ ret' = value
    /\ UNCHANGED <<cfgVars, call, env, handlers, calls, mutex>>
    /\ UNCHANGED svcVars

CallExtractSessionId ==
    /\ call.fn = "extract_session_id"
    /\ Returns(ExtractSessionId(call.arg))

CallHandleRedemption ==
    /\ call.fn = "handle_redemption"
    /\ Returns(HandleRedemption(call.arg))

CallGetNumericBroadcasterId ==
    /\ call.fn = "get_numeric_broadcaster_id"
    /\ Returns(GetNumericBroadcasterId(env, call.arg))

CallRegisterWsSubscription ==
    /\ call.fn = "register_ws_subscription"
    /\ Returns(RegisterWsSubscription(env, call.arg))

PureNext ==
    \/ CallExtractSessionId
    \/ CallHandleRedemption
    \/ CallGetNumericBroadcasterId
    \/ CallRegisterWsSubscription

PureSpec == PureInit /\ [][PureNext]_vars

(***************************************************************************)
(* main before the service: ensure_config, then ensure_twitch_token.       *)
(***************************************************************************)
\* config.rs:74-87: the names interactive_setup writes to the file
ConfigKeys ==
    {"CLIENT_ID", "CLIENT_SECRET", "REDIRECT_URI", "BROADCASTER_ID",
     "BIND_ADDRESS", "EVENTSUB_SECRET"}

\* the file at config_path(): missing, as interactive_setup writes it, or
\* with a line dotenvy cannot parse
ConfigFiles == {"absent", "complete", "unparsable"}

\* what the system answers to ensure_config: all goes well, no configuration
\* directory, a prompt that cannot be read, a file that cannot be written
ConfigOutcomes == {"ok", "nodir", "noinput", "nowrite"}

\* config.rs:95-103: the environment after ensure_config; dotenvy::from_path
\* sets the names of an existing file, interactive_setup sets none
EnvAfterEnsureConfig(e, file) ==
    IF file = "complete" THEN e \cup ConfigKeys ELSE e

\* config.rs:95-103: does ensure_config return Ok
EnsureConfigOk(file, outcome) ==
    /\ outcome # "nodir"
    /\ file # "unparsable"
    /\ file = "absent" => outcome = "ok"

ConfigInit ==
    /\ env \in SUBSET EnvKeys
    /\ SvcInit
    /\ call = NoCall
    /\ ret = Pending
    /\ configFile \in ConfigFiles
    /\ mainPc = "config"

\* main.rs:15: ensure_config()?: load the file that exists, or run the
\* interactive setup, which writes the file; an error ends main
EnsureConfig(outcome) ==
    /\ mainPc = "config"
    /\ env' = EnvAfterEnsureConfig(env, configFile)
    /\ IF EnsureConfigOk(configFile, outcome)
       THEN /\ mainPc' = "token"
            /\ configFile' = "complete"
       ELSE /\ mainPc' = "failed"
            /\ UNCHANGED configFile
    /\ UNCHANGED <<pureVars, handlers, calls, mutex>>
    /\ UNCHANGED svcVars

\* auth.rs:41-45, 89-92: the names create_twitch_token and
\* check_twitch_token read with env::var(..).unwrap()
TokenKeys(stored) ==
    IF stored THEN {"CLIENT_ID", "CLIENT_SECRET"}
    ELSE {"CLIENT_ID", "CLIENT_SECRET", "REDIRECT_URI"}

\* main.rs:18, auth.rs:113-120: ensure_twitch_token: with a stored token
\* check_twitch_token, without one create_twitch_token; a name that is not
\* set and a refused token both panic at an unwrap
EnsureTwitchToken(stored, granted) ==
    /\ mainPc = "token"
    /\ mainPc' = IF TokenKeys(stored) \subseteq env /\ granted
                 THEN "service"
                 ELSE "panicked"
    /\ UNCHANGED <<configFile, pureVars, env, handlers, calls, mutex>>
    /\ UNCHANGED svcVars

ConfigNext ==
    \/ \E outcome \in ConfigOutcomes : EnsureConfig(outcome)
    \/ \E stored \in BOOLEAN, granted \in BOOLEAN : EnsureTwitchToken(stored, granted)

ConfigSpec == ConfigInit /\ [][ConfigNext]_vars

(***************************************************************************)
(* The claims.                                                             *)
(***************************************************************************)
\* C1: the registration request is sent only after the broadcaster-id lookup
\* succeeded and the handshake returned a session id (and carries both), the
\* dispatch loop reads a frame only after the registration succeeded, and a
\* setup step that failed is followed by no later step.
C1_SetupOrder ==
    /\ sent.connects > 0 => setup.lookup = "ok"
    /\ sent.registrations > 0 =>
          /\ setup.lookup = "ok"
          /\ setup.handshake = "ok"
          /\ sessionId # NoValue
          /\ regRequest = SubscriptionPayload(numericId, sessionId.s)
    /\ (pc = "loop" \/ framesRead > 0) => setup.register = "ok"
    /\ setup.lookup = "err" =>
          sent.connects = 0 /\ sent.registrations = 0 /\ framesRead = 0
    /\ setup.handshake = "err" => sent.registrations = 0 /\ framesRead = 0
    /\ setup.register = "err" => framesRead = 0 /\ pc \in {"returned", "exited"}

\* all three setup steps succeeded and the loop has read a frame
C1_Witness == setup.register = "ok" /\ framesRead > 0

\* C2 (as claimed): the session id the handshake returns, and the one placed
\* in the registration request, is never the empty string.
C2_SessionIdNonEmpty ==
    /\ sessionId # NoValue => sessionId.s # ""
    /\ regRequest # NoValue => regRequest.session_id # ""

\* C3 (as claimed): the handshake is over at most HandshakePolls seconds
\* after the connection opened, whatever the server sends or does not send.
C3_HandshakeWithinCeiling ==
    pc \in {"hs_await", "hs_sleep"} => hsElapsed <= HandshakePolls

\* C4: a handler is spawned only for an eligible frame: every handler's
\* payload carries the subscribed event type, a frame that is not text, not
\* JSON or of another/absent/non-string type leaves no handler behind, and
\* there are never more handlers than eligible frames read.
C4_OnlyEligibleDispatched ==
    /\ Len(handlers) <= eligibleRead
    /\ \A i \in DOMAIN handlers :
          Get(Get(handlers[i].payload, "subscription"), "type") = Str(EventType)
    /\ lastKind \in {"nontext", "malformed", "ineligible", "welcome"} =>
          \A i \in DOMAIN handlers : handlers[i].seq # framesRead

\* an ineligible frame was read after an eligible one and spawned nothing
C4_Witness ==
    Len(handlers) = 1 /\ framesRead = 2 /\ lastKind = "ineligible"

\* the entries into play_sound_for_redemption made by handler thread i
CallsOf(i) == {k \in DOMAIN calls : calls[k].h = i}

\* handler thread i has run handle_redemption and the process has not exited
HasRun(i) == handlers[i].st \in {"entered", "playing", "done", "panicked"}

\* C5 (as claimed): every eligible frame gets one handler, and a handler that
\* has run has entered the action handler exactly once, whatever the rest of
\* the payload is.
C5_ActionHandlerOncePerEligibleFrame ==
    /\ Len(handlers) = eligibleRead
    /\ \A i \in DOMAIN handlers : HasRun(i) => Cardinality(CallsOf(i)) = 1

\* C5 (amended): every eligible frame gets exactly one handler thread; a
\* thread enters the action handler at most once: once it has run, exactly
\* once if its payload has an event member and not at all if it has none;
\* with the event {user_name: "TestUser", reward: {title: "CoolSound"}} the
\* call carries "TestUser" and "CoolSound".
C5_OncePerEligibleFrameWithEvent ==
    /\ Len(handlers) = eligibleRead
    /\ \A i \in DOMAIN handlers :
          /\ Cardinality(CallsOf(i)) <= 1
          /\ HasRun(i) =>
                Cardinality(CallsOf(i)) =
                   IF Get(handlers[i].payload, "event") # NoValue THEN 1 ELSE 0
          /\ handlers[i].st = "spawned" => CallsOf(i) = {}
          /\ CallsOf(i) # {} => Get(handlers[i].payload, "event") # NoValue
          /\ \A k \in CallsOf(i) :
                Get(handlers[i].payload, "event")
                      = EventOf(Str("TestUser"), Str("CoolSound"))
                   => calls[k].user = "TestUser" /\ calls[k].title = "CoolSound"

\* one handler ran on a payload with an event and called the action handler,
\* another ran on a payload without one and did not
C5_Witness ==
    \E i, j \in DOMAIN handlers :
        /\ HasRun(i) /\ Get(handlers[i].payload, "event") # NoValue
        /\ Cardinality(CallsOf(i)) = 1
        /\ HasRun(j) /\ Get(handlers[j].payload, "event") = NoValue
        /\ CallsOf(j) = {}

\* C6: the loop never waits on a handler: while it is in the loop and the
\* server has a frame to send, reading that frame is possible whatever the
\* handler threads are doing.
C6_LoopNeverWaits ==
    (pc = "loop" /\ framesRead < MaxFrames) =>
        \A f \in Frames : ENABLED LoopRecv(f)

\* the first handler is still playing, and the loop has read the next
\* eligible frame and spawned its handler, which has started
C6_Witness ==
    /\ Len(handlers) = 2
    /\ handlers[1].st = "playing"
    /\ handlers[2].st = "entered"

\* C7 (as claimed): handlers enter the action handler in the arrival order
\* of their frames.
C7_EntryOrderMatchesArrival ==
    \A k1, k2 \in DOMAIN calls :
        k1 < k2 => handlers[calls[k1].h].seq < handlers[calls[k2].h].seq

\* C7 (amended): handler threads are spawned in the arrival order of their
\* frames, one per arrival.
C7_SpawnOrderMatchesArrival ==
    \A i, j \in DOMAIN handlers :
        i < j => handlers[i].seq < handlers[j].seq

\* two handlers were spawned and the later one entered the action handler first
C7_Witness ==
    /\ Len(handlers) = 2
    /\ Len(calls) = 2
    /\ calls[1].h = 2
    /\ calls[2].h = 1

\* C8: reading a text frame that is not JSON returns the parse error and
\* leaves the handlers as they are; once the parse error is returned no
\* frame is read and no handler is spawned.
C8_ParseErrorEndsLoop ==
    [][ /\ (framesRead' # framesRead /\ lastKind' = "malformed") =>
              /\ pc' = "returned"
              /\ result' = Err("parse error", 0, "")
              /\ handlers' = handlers
              /\ calls' = calls
        /\ result = Err("parse error", 0, "") =>
              /\ framesRead' = framesRead
              /\ Len(handlers') = Len(handlers)
              /\ result' = result
              /\ pc' # "loop"
      ]_vars

\* the parse error is returned and a handler spawned before it can still start
C8_Witness ==
    /\ pc = "returned"
    /\ result = Err("parse error", 0, "")
    /\ \E i \in DOMAIN handlers : handlers[i].st = "spawned" /\ ENABLED HandlerRun(i)

\* C9: the loop ends in three ways only: Ok when the stream ends, the read
\* error, the parse error of a text frame; any other frame leaves it running.
C9_LoopEndings ==
    [][ /\ (pc = "loop" /\ pc' # "loop") =>
              /\ pc' = "returned"
              /\ \/ result' = Ok("") /\ streamEnded' /\ framesRead' = framesRead
                 \/ /\ result' = Err("read error", 0, "")
                    /\ ~streamEnded'
                    /\ framesRead' = framesRead
                 \/ /\ result' = Err("parse error", 0, "")
                    /\ framesRead' = framesRead + 1
                    /\ lastKind' = "malformed"
        /\ (pc = "loop" /\ framesRead' # framesRead /\ lastKind' # "malformed") =>
              pc' = "loop" /\ result' = Running
      ]_vars

\* the loop went on after a frame that is not text and returned Ok at the
\* end of the stream
C9_Witness ==
    pc = "returned" /\ result = Ok("") /\ streamEnded /\ lastKind = "nontext"

\* C10: a step in which a handler thread returns or panics changes nothing of
\* the service: not its position, not its result, not what it has read.
C10_HandlerFailureNotSurfaced ==
    [][ \A i \in DOMAIN handlers :
            (/\ i \in DOMAIN handlers'
             /\ handlers[i].st \notin {"done", "panicked"}
             /\ handlers'[i].st \in {"done", "panicked"})
            => UNCHANGED svcVars
      ]_vars

\* a handler has panicked, the loop is running and can read the next frame
C10_Witness ==
    /\ pc = "loop"
    /\ \E i \in DOMAIN handlers : handlers[i].st = "panicked"
    /\ \E f \in Frames : ENABLED LoopRecv(f)

\* C11: in one run at most one identity-lookup request, one connection open
\* and one registration request are issued, whatever fails and whenever the
\* connection drops.
C11_SetupAtMostOnce ==
    /\ sent.lookups <= 1
    /\ sent.connects <= 1
    /\ sent.registrations <= 1

\* the connection dropped in the dispatch loop after each setup request was
\* issued once, and the service has returned the read error
C11_Witness ==
    /\ pc \in {"returned", "exited"}
    /\ result = Err("read error", 0, "")
    /\ setup.register = "ok"
    /\ sent = [lookups |-> 1, connects |-> 1, registrations |-> 1]

\* C12: extract_session_id returns Some(S) for a JSON text whose
\* metadata.message_type is "session_welcome" and whose payload.session.id is
\* a non-empty string S, and None for a text that is malformed or has not that
\* message type; the call changes nothing but its return value.
C12_ExtractSessionId ==
    (call.fn = "extract_session_id" /\ ret # Pending) =>
        LET text == call.arg
            mt == Get(Get(text, "metadata"), "message_type")
            id == Get(Get(Get(text, "payload"), "session"), "id")
        IN  /\ (text # Malformed /\ mt = Str(WelcomeType) /\ id.t = "str" /\ id.s # "")
                  => ret = Str(id.s)
            /\ (text = Malformed \/ mt # Str(WelcomeType)) => ret = NoValue

\* the call of the repository's test has returned the session id of the text
C12_Witness ==
    /\ call = [fn |-> "extract_session_id",
               arg |-> WelcomeText(Str(WelcomeType), Str("TestSessionID123"))]
    /\ ret = Str("TestSessionID123")

\* C13 as stated: for the payload of an eligible frame, handle_redemption
\* always calls the handler and returns no error; a missing user_name is
\* passed as "unknown user", a missing reward.title as "unknown reward", each
\* whatever the other is, and a present string is passed unchanged.
C13_MissingFieldNeverSuppresses ==
    (call.fn = "handle_redemption" /\ ret # Pending) =>
        LET event == Get(call.arg, "event")
            user == Get(event, "user_name")
            title == Get(Get(event, "reward"), "title")
        IN  /\ ret.st = "ok"
            /\ ret.called
            /\ user = NoValue => ret.user = UnknownUser
            /\ title = NoValue => ret.title = UnknownReward
            /\ user.t = "str" => ret.user = user.s
            /\ title.t = "str" => ret.title = title.s

\* C13 amended: when the payload has an event member the handler is called,
\* with user_name and reward.title passed unchanged where they are JSON
\* strings and replaced by "unknown user" and "unknown reward", each on its
\* own, where they are absent or not strings; when the payload has no event
\* member the handler is not called; no error is returned in either case.
C13_DefaultsWhenEventPresent ==
    (call.fn = "handle_redemption" /\ ret # Pending) =>
        LET event == Get(call.arg, "event")
            user == Get(event, "user_name")
            title == Get(Get(event, "reward"), "title")
        IN  /\ ret.st = "ok"
            /\ ret.called <=> event # NoValue
            /\ ret.called =>
                  /\ ret.user = IF user.t = "str" THEN user.s ELSE UnknownUser
                  /\ ret.title = IF title.t = "str" THEN title.s ELSE UnknownReward

\* the event has a reward title and no user_name: the handler was called with
\* the default user and the title unchanged
C13_Witness ==
    /\ call.fn = "handle_redemption"
    /\ Get(call.arg, "event") = EventOf(NoValue, Str("Airhorn"))
    /\ ret # Pending
    /\ ret.called
    /\ ret.user = UnknownUser
    /\ ret.title = "Airhorn"

\* C14: the session id is assigned once, by the handshake step that receives
\* a session_welcome frame with a string id, and no later step changes it: no
\* further handshake step and no frame read by the dispatch loop, another
\* session_welcome included; the registration request carries that id.
C14_SessionIdAssignedOnce ==
    [][ /\ sessionId # NoValue => sessionId' = sessionId
        /\ sessionId' # sessionId =>
              pc = "hs_await" /\ hsKind' \in {"welcome", "empty"}
        /\ regRequest' # NoValue => regRequest'.session_id = sessionId'.s
      ]_vars

\* the dispatch loop has read another session_welcome frame and goes on with
\* the id the registration was made with
C14_Witness ==
    /\ pc = "loop"
    /\ lastKind = "welcome"
    /\ sessionId = Str("S1")
    /\ regRequest # NoValue
    /\ regRequest.session_id = "S1"

\* C15: in the handshake a received frame that is not a qualifying welcome (not
\* text, text that is not JSON, JSON of another message type, a welcome
\* without a string id) is ignored: the step that receives it returns no
\* error and sets no session id, the handshake awaits the next frame unless
\* that was its last iteration, and a welcome received while it awaits is
\* accepted.
C15_OtherFramesIgnored ==
    [][ /\ (/\ pc = "hs_await"
            /\ pc' # "hs_await"
            /\ hsKind' \in {"nontext", "malformed", "othertype", "noid"})
           => /\ pc' = "hs_sleep"
              /\ result' = Running
              /\ sessionId' = NoValue
              /\ setup' = setup
        /\ (pc = "hs_sleep" /\ polls + 1 < HandshakePolls)
           => pc' = "hs_await" /\ result' = Running /\ setup' = setup
        /\ (pc = "hs_await" /\ pc' # "hs_await" /\ hsKind' = "welcome")
           => /\ pc' = "register"
              /\ sessionId' # NoValue
              /\ setup'.handshake = "ok"
      ]_vars

\* a welcome was accepted after earlier frames of the open connection had
\* been ignored
C15_Witness ==
    /\ pc = "register"
    /\ ~streamEnded
    /\ polls >= 2
    /\ hsKind = "welcome"
    /\ sessionId = Str("S1")
    /\ setup.handshake = "ok"

\* C16: a step of the dispatch loop that reads a frame that is not text
\* (binary, ping, pong, close) keeps the loop running, returns no result,
\* spawns no handler thread and makes no call of the action handler.
C16_NonTextFrameIgnored ==
    [][ (pc = "loop" /\ framesRead' = framesRead + 1 /\ lastKind' = "nontext")
        => /\ pc' = "loop"
           /\ result' = Running
           /\ handlers' = handlers
           /\ calls' = calls
      ]_vars

\* the loop has read a frame that is not text, no handler exists, and the
\* loop can read the next frame or meet the end of the stream
C16_Witness ==
    /\ pc = "loop"
    /\ framesRead = 1
    /\ lastKind = "nontext"
    /\ handlers = <<>>
    /\ result = Running
    /\ \E f \in Frames : ENABLED LoopRecv(f)
    /\ ENABLED LoopStreamEnd

\* C17: the identity lookup returns success only for a response with a
\* success status whose data list is non-empty and whose first entry has a
\* non-empty id; a response with another status gives an error carrying the
\* status, and a success status with an empty or missing data list gives the
\* not-found error.
C17_LookupSuccessNeedsNonEmptyId ==
    (call.fn = "get_numeric_broadcaster_id" /\ ret # Pending) =>
        LET resp == call.arg
            data == Get(resp.body, "data")
            id == Get(GetIdx(data, 0), "id")
            answered == "CLIENT_ID" \in env /\ resp.sent
        IN  /\ ret.st = "ok" =>
                  /\ answered
                  /\ IsSuccess(resp.status)
                  /\ data.t = "arr"
                  /\ Len(data.a) >= 1
                  /\ id.t = "str"
                  /\ id.s # ""
            /\ (answered /\ ~IsSuccess(resp.status)) =>
                  /\ ret.st = "err"
                  /\ ret.msg = "Failed to fetch broadcaster id"
                  /\ ret.status = resp.status
            /\ (/\ answered
                /\ IsSuccess(resp.status)
                /\ ParseOk(resp.body)
                /\ (data.t # "arr" \/ Len(data.a) = 0)) =>
                  ret = Err("No broadcaster id found", 0, "")

\* C18 as stated: for a registration response, register_ws_subscription
\* returns success exactly when the status is an HTTP success, and for every
\* other status the registration error whose message holds the body's text.
C18_ErrorCarriesBodyText ==
    (/\ call.fn = "register_ws_subscription"
     /\ ret # Pending
     /\ "CLIENT_ID" \in env
     /\ call.arg.sent) =>
        LET resp == call.arg
        IN  /\ ret.st = "ok" <=> IsSuccess(resp.status)
            /\ ~IsSuccess(resp.status) =>
                  /\ ret.st = "err"
                  /\ ret.msg = "Failed to register subscription"
                  /\ resp.body.t = "str" => ret.body = resp.body.s

\* C18 amended: register_ws_subscription returns success exactly when a
\* response arrives with an HTTP-success status; for another status it
\* returns the registration error holding the body's text when the body can
\* be read, and the error of the failed read, without that message, when it
\* cannot.
C18_ErrorCarriesBodyTextWhenRead ==
    (call.fn = "register_ws_subscription" /\ ret # Pending) =>
        LET resp == call.arg
            answered == "CLIENT_ID" \in env /\ resp.sent
        IN  /\ ret.st = "ok" <=> (answered /\ IsSuccess(resp.status))
            /\ (answered /\ ~IsSuccess(resp.status) /\ resp.body.t = "str") =>
                  ret = Err("Failed to register subscription", 0, resp.body.s)
            /\ (answered /\ ~IsSuccess(resp.status) /\ resp.body.t # "str") =>
                  ret.st = "err" /\ ret.msg # "Failed to register subscription"

\* status 400 with the body "invalid condition" gave the registration error
\* holding that text
C18_Witness ==
    /\ call = [fn |-> "register_ws_subscription",
               arg |-> HttpResponse(400, Str("invalid condition"))]
    /\ ret = Err("Failed to register subscription", 0, "invalid condition")

\* C19: playbacks of different handler invocations can overlap: a handler that
\* has entered play_sound_for_redemption for a matching sound, with a working
\* audio output, can start its playback while another invocation is playing.
C19_PlaybackCanOverlap ==
    \A i, j \in DOMAIN handlers :
        (/\ i # j
         /\ handlers[i].st = "playing"
         /\ handlers[j].st = "entered"
         /\ HasSound(RewardTitle(Get(handlers[j].payload, "event")))
         /\ ~mutex.poisoned)
        => ENABLED HandlerLock(j, "play")

\* C20: handler invocations are independent: a handler that panics does so
\* for a failure of its own (its audio sink could not be created), never
\* because another invocation has panicked before it and left the lock of
\* the sound list poisoned.
C20_HandlersIndependent ==
    [][ \A j \in DOMAIN handlers :
            (/\ j \in DOMAIN handlers'
             /\ handlers[j].st = "entered"
             /\ handlers'[j].st = "panicked")
            => ~mutex.poisoned
      ]_vars

\* C21: every handler the dispatch loop has dispatched runs to completion,
\* also when the service and then main return while it is still running or
\* waiting for the lock of the sound list: no handler thread is ended by the
\* exit of the process before it has completed.
C21_DispatchedHandlersComplete ==
    \A i \in DOMAIN handlers : handlers[i].st # "killed"

\* C22: whenever ensure_config has returned success, CLIENT_ID, CLIENT_SECRET,
\* REDIRECT_URI and BROADCASTER_ID are set in the process environment, whether
\* the file existed or was just written by the interactive setup: the token
\* acquisition and the event service never start with one of them unset.
C22_ConfigInEnvAfterEnsureConfig ==
    mainPc \in {"token", "service"} => EnvKeys \subseteq env

====
